---- MODULE Spec2Model ----
(***************************************************************************)
(* A model of src/index.tsx: the App component (roster store, session      *)
(* recorder, transcription pipeline, annotation merger) and the view state *)
(* of the session log, RegisterView and EducationView.                     *)
(*                                                                         *)
(* Strings that are compared or concatenated by the code (class, number)   *)
(* are sequences of one-character strings; other strings are TLA+ strings. *)
(* An absent optional string (undefined) and a null string state are both  *)
(* None.  Identifiers are Date.now().toString(): the value of the clock    *)
(* `now` (toString is injective on integers, and ids are only tested for   *)
(* equality); a null id is NoId.                                           *)
(***************************************************************************)
EXTENDS Integers, Sequences, FiniteSets, TLC

VARIABLES
  \* App
  students,           \* useState<Student[]>([])
  activeTab,          \* useState<Tab>('register')
  selectedStudentId,  \* the session log's selected student
  expandedCounselId,  \* the session log's expanded session
  isRecording,
  audioBlob,
  isLoading,
  isMobile,
  mediaRecorder,      \* mediaRecorder.current: the index of a capture, or 0
  audioChunks,        \* audioChunks.current
  \* the environment of App
  now,                \* the millisecond clock read by Date.now()
  captures,           \* every stream getUserMedia handed out, with its recorder
  gettingMedia,       \* startRecording calls suspended at await getUserMedia
  runs,               \* handleTranscribeAndFeedback calls suspended at an await
  \* RegisterView
  editingStudentId,
  \* EducationView
  eduStudentId,       \* EducationView's selectedStudentId
  selectedCounselId,
  image,
  notes,
  isModified,
  readers,            \* FileReaders that have not fired loadend yet
  \* history
  supplied,           \* form fields the handlers changed since the form was loaded
  lastOp              \* the handler that ran last, with its outcome

storeVars == <<students, now>>
logVars == <<selectedStudentId, expandedCounselId>>
recorderVars == <<isRecording, audioBlob, mediaRecorder, audioChunks, captures, gettingMedia>>
pipelineVars == <<isLoading, runs>>
shellVars == <<activeTab, isMobile>>
registerVars == <<editingStudentId>>
formVars == <<image, notes, isModified, supplied>>
eduVars == <<eduStudentId, selectedCounselId, image, notes, isModified, readers, supplied>>
appVars ==
  <<activeTab, selectedStudentId, expandedCounselId, isRecording, audioBlob,
    isLoading, isMobile, mediaRecorder, audioChunks, captures, gettingMedia,
    runs, editingStudentId, eduStudentId, selectedCounselId, image, notes,
    isModified, readers, supplied>>
vars == <<students, now, lastOp, appVars>>

None == "undefined"
NoId == -1
NoBlob == [type |-> "null"]
NoArg == [kind |-> "none"]

\* What lastOp holds after handler op ran with the input or outcome arg.
Op(op, arg) == [op |-> op, arg |-> arg]

(***************************************************************************)
(* Bounds of the model.                                                    *)
(***************************************************************************)
MaxStudents == 2
MaxClock == 1
MaxCounsels == 2
MaxCaptures == 2
MaxReaders == 1

(***************************************************************************)
(* String comparison.                                                      *)
(***************************************************************************)
\* The collation rank of a character: punctuation sorts before digits.
CharRank(c) ==
  CASE c = "-" -> 0
    [] c = "1" -> 1
    [] c = "2" -> 2

Min(a, b) == IF a < b THEN a ELSE b

\* String.prototype.localeCompare on strings of the characters above:
\* -1, 0 or 1 by the first differing character, a proper prefix first.
localeCompare(a, b) ==
  LET n == Min(Len(a), Len(b))
      diff == {i \in 1..n : a[i] # b[i]}
  IN IF diff # {}
       THEN LET i == CHOOSE k \in diff : \A m \in diff : k <= m
            IN IF CharRank(a[i]) < CharRank(b[i]) THEN -1 ELSE 1
       ELSE IF Len(a) < Len(b) THEN -1
       ELSE IF Len(a) > Len(b) THEN 1
       ELSE 0

\* The template literal `${a.class}-${a.number}`.
sortKey(s) == s.class \o <<"-">> \o s.number

\* The comparator handed to Array.prototype.sort.
compareStudents(a, b) == localeCompare(sortKey(a), sortKey(b))

\* An insertion that puts x before the elements it compares equal to: the
\* sort it builds is not stable.
RECURSIVE InsertBeforeEqual(_, _)
InsertBeforeEqual(x, sorted) ==
  IF sorted = <<>> THEN <<x>>
  ELSE IF compareStudents(x, Head(sorted)) <= 0 THEN <<x>> \o sorted
  ELSE <<Head(sorted)>> \o InsertBeforeEqual(x, Tail(sorted))

\* One insertion of a stable sort: x goes after every element that does not
\* compare greater than it.
RECURSIVE Insert(_, _)
Insert(x, sorted) ==
  IF sorted = <<>> THEN <<x>>
  ELSE IF compareStudents(x, Head(sorted)) < 0 THEN <<x>> \o sorted
  ELSE <<Head(sorted)>> \o Insert(x, Tail(sorted))

\* Array.prototype.sort with the comparator (stable since ES2019).
RECURSIVE sort(_)
sort(seq) ==
  IF seq = <<>> THEN <<>>
  ELSE Insert(seq[Len(seq)], sort(SubSeq(seq, 1, Len(seq) - 1)))

\* Array.prototype.map on a sequence.
Map(seq, F(_)) == [i \in 1..Len(seq) |-> F(seq[i])]

(***************************************************************************)
(* Roster store: handleAddStudent and handleUpdateStudent.                 *)
(***************************************************************************)
\* The student handleAddStudent constructs from the form's fields.
newStudent(fields) ==
  [id |-> now, class |-> fields.class, number |-> fields.number,
   name |-> fields.name, mbti |-> fields.mbti, notes |-> fields.notes,
   counsels |-> <<>>]

\* setStudents(prev => [...prev, newStudent].sort(...))
handleAddStudent(fields) ==
  students' = sort(Append(students, newStudent(fields)))

\* prev.map(s => s.id === studentToUpdate.id ? studentToUpdate : s)
replaceStudent(prev, studentToUpdate) ==
  Map(prev, LAMBDA s : IF s.id = studentToUpdate.id THEN studentToUpdate ELSE s)

\* setStudents(prev => prev.map(...).sort(...))
handleUpdateStudent(studentToUpdate) ==
  students' = sort(replaceStudent(students, studentToUpdate))


(***************************************************************************)
(* Lookups: Array.prototype.find by id.                                    *)
(***************************************************************************)
HasId(seq, id) == \E i \in 1..Len(seq) : seq[i].id = id

\* The index of the first element with that id, 0 when there is none.
IndexOfId(seq, id) ==
  IF HasId(seq, id)
    THEN CHOOSE i \in 1..Len(seq) :
           /\ seq[i].id = id
           /\ \A k \in 1..(i - 1) : seq[k].id # id
    ELSE 0

\* The session a (student id, session id) pair resolves to, as the student's
\* index and the session's distance from the end of its list (the place of a
\* session object that a prepend does not move); <<0, 0>> when either find
\* returns undefined.
CounselRef(roster, sid, cid) ==
  LET i == IndexOfId(roster, sid)
  IN IF i = 0 THEN <<0, 0>>
     ELSE LET j == IndexOfId(roster[i].counsels, cid)
          IN IF j = 0 THEN <<0, 0>>
             ELSE <<i, Len(roster[i].counsels) - j + 1>>

CounselAt(roster, ref) ==
  roster[ref[1]].counsels[Len(roster[ref[1]].counsels) - ref[2] + 1]

TotalCounsels(roster) ==
  LET RECURSIVE Sum(_)
      Sum(k) == IF k = 0 THEN 0 ELSE Len(roster[k].counsels) + Sum(k - 1)
  IN Sum(Len(roster))

Remove(seq, i) == SubSeq(seq, 1, i - 1) \o SubSeq(seq, i + 1, Len(seq))

(***************************************************************************)
(* EducationView's form and its useEffect on [selectedCounsel].            *)
(***************************************************************************)
\* A form that does not take over the stored image.
formImageNotLoaded(counsel) == None

\* selectedCounsel.reflectionImage || null
formImage(counsel) ==
  IF counsel.reflectionImage \in {None, ""} THEN None ELSE counsel.reflectionImage

\* selectedCounsel.educationalNotes || ''
formNotes(counsel) ==
  IF counsel.educationalNotes = None THEN "" ELSE counsel.educationalNotes

\* The form after a render in which the roster is roster2 and the focus
\* (sid2, cid2), when the handler left the form at img0, notes0, mod0, sup0:
\* the effect runs when selectedCounsel is another object than before
\* (replaced: the handler has put a new object in its place).
useEffectSelectedCounsel(roster2, sid2, cid2, replaced, img0, notes0, mod0, sup0) ==
  LET old == CounselRef(students, eduStudentId, selectedCounselId)
      new == CounselRef(roster2, sid2, cid2)
  IN IF new = old /\ ~replaced
       THEN /\ image' = img0
            /\ notes' = notes0
            /\ isModified' = mod0
            /\ supplied' = sup0
     ELSE IF new # <<0, 0>>
       THEN /\ image' = formImage(CounselAt(roster2, new))
            /\ notes' = formNotes(CounselAt(roster2, new))
            /\ isModified' = FALSE
            /\ supplied' = {}
     ELSE /\ image' = None
          /\ notes' = ""
          /\ isModified' = mod0
          /\ supplied' = {}

(***************************************************************************)
(* What the session log renders (lines 232-311).                           *)
(***************************************************************************)
logListVisible == activeTab = "log" /\ (~isMobile \/ selectedStudentId = NoId)

logDetailsVisible == activeTab = "log" /\ (~isMobile \/ selectedStudentId # NoId)

\* The recording and pipeline controls are rendered for a resolved student.
controlsVisible == logDetailsVisible /\ HasId(students, selectedStudentId)

(***************************************************************************)
(* Session recorder: startRecording, stopRecording, the recorder's events. *)
(***************************************************************************)
Blob(chunks) == [type |-> "audio/webm", chunks |-> chunks]

Capture(tracks, state) == [tracks |-> tracks, state |-> state]

\* The start button: startRecording runs up to await getUserMedia.
StartRecordingClick ==
  /\ controlsVisible
  /\ ~isRecording
  /\ ~isLoading
  /\ Len(captures) + gettingMedia < MaxCaptures
  /\ gettingMedia' = gettingMedia + 1
  /\ lastOp' = Op("startRecording", NoArg)
  /\ UNCHANGED <<storeVars, logVars, pipelineVars, shellVars, registerVars, eduVars,
                 isRecording, audioBlob, mediaRecorder, audioChunks, captures>>

\* getUserMedia rejects: the catch block alerts.
GetUserMediaRejects ==
  /\ gettingMedia > 0
  /\ gettingMedia' = gettingMedia - 1
  /\ lastOp' = Op("startRecording:failed", [kind |-> "denied"])
  /\ UNCHANGED <<storeVars, logVars, pipelineVars, shellVars, registerVars, eduVars,
                 isRecording, audioBlob, mediaRecorder, audioChunks, captures>>

\* getUserMedia resolves and new MediaRecorder(stream) throws.
RecorderConstructorThrows ==
  /\ gettingMedia > 0
  /\ gettingMedia' = gettingMedia - 1
  /\ captures' = Append(captures, Capture("live", "none"))
  /\ lastOp' = Op("startRecording:failed", [kind |-> "constructor"])
  /\ UNCHANGED <<storeVars, logVars, pipelineVars, shellVars, registerVars, eduVars,
                 isRecording, audioBlob, mediaRecorder, audioChunks>>

\* getUserMedia resolves and mediaRecorder.current.start() throws.
RecorderStartThrows ==
  /\ gettingMedia > 0
  /\ gettingMedia' = gettingMedia - 1
  /\ captures' = Append(captures, Capture("live", "inactive"))
  /\ mediaRecorder' = Len(captures) + 1
  /\ audioChunks' = <<>>
  /\ lastOp' = Op("startRecording:failed", [kind |-> "start"])
  /\ UNCHANGED <<storeVars, logVars, pipelineVars, shellVars, registerVars, eduVars,
                 isRecording, audioBlob>>

\* getUserMedia resolves and the recorder starts.
RecordingStarts ==
  /\ gettingMedia > 0
  /\ gettingMedia' = gettingMedia - 1
  /\ captures' = Append(captures, Capture("live", "recording"))
  /\ mediaRecorder' = Len(captures) + 1
  /\ audioChunks' = <<>>
  /\ isRecording' = TRUE
  /\ audioBlob' = NoBlob
  /\ lastOp' = Op("startRecording:ok", NoArg)
  /\ UNCHANGED <<storeVars, logVars, pipelineVars, shellVars, registerVars, eduVars>>

\* stopRecording: MediaRecorder.stop() makes the recorder inactive at once and
\* queues the task that fires dataavailable and stop.
stopRecording ==
  IF mediaRecorder # 0 /\ captures[mediaRecorder].state = "recording"
    THEN /\ captures' = [captures EXCEPT ![mediaRecorder].state = "stopping"]
         /\ isRecording' = FALSE
    ELSE UNCHANGED <<captures, isRecording>>

StopRecordingClick ==
  /\ controlsVisible
  /\ isRecording
  /\ stopRecording
  /\ lastOp' = Op("stopRecording", NoArg)
  /\ UNCHANGED <<storeVars, logVars, pipelineVars, shellVars, registerVars, eduVars,
                 audioBlob, mediaRecorder, audioChunks, gettingMedia>>

\* The task a stop queued, for capture k: ondataavailable pushes the
\* recording onto audioChunks.current, then onstop builds the blob from
\* audioChunks.current and stops the tracks of its own stream.
RecorderStopped(k) ==
  /\ captures[k].state = "stopping"
  /\ audioChunks' = Append(audioChunks, k)
  /\ audioBlob' = Blob(Append(audioChunks, k))
  /\ captures' = [captures EXCEPT ![k] = Capture("stopped", "inactive")]
  /\ lastOp' = Op("onstop", NoArg)
  /\ UNCHANGED <<storeVars, logVars, pipelineVars, shellVars, registerVars, eduVars,
                 isRecording, mediaRecorder, gettingMedia>>

(***************************************************************************)
(* Transcription pipeline: handleTranscribeAndFeedback.                    *)
(***************************************************************************)
\* What response.text can hold: text JSON.parse throws on, the text "null",
\* an object with both fields, one without feedback, one whose transcription
\* is the empty string.
Responses ==
  { [kind |-> "garbage"],
    [kind |-> "null"],
    [kind |-> "object", transcription |-> "t1", feedback |-> "f1"],
    [kind |-> "object", transcription |-> "t1", feedback |-> None],
    [kind |-> "object", transcription |-> "", feedback |-> "f1"] }

\* JSON.parse(response.text) throws, or reading a field of its value does.
parseThrows(resp) == resp.kind \in {"garbage", "null"}

\* A session built with the audio held when the response arrives, not the
\* audio the handler was called with.
newCounselLateAudio(run, resp) ==
  [id |-> now, date |-> now, audio |-> audioBlob,
   transcription |-> resp.transcription, feedback |-> resp.feedback,
   reflectionImage |-> None, educationalNotes |-> None]

\* The session the run builds: the id and the date from the clock, the audio
\* the handler was called with, the two fields of the parsed response.
newCounsel(run, resp) ==
  [id |-> now, date |-> now, audio |-> run.audio,
   transcription |-> resp.transcription, feedback |-> resp.feedback,
   reflectionImage |-> None, educationalNotes |-> None]

\* prev.map(s => s.id === selectedStudentId ? {...s, counsels: [newCounsel, ...s.counsels]} : s)
prependCounsel(prev, sid, counsel) ==
  Map(prev, LAMBDA s :
    IF s.id = sid THEN [s EXCEPT !.counsels = <<counsel>> \o @] ELSE s)

\* A pipeline button that is rendered while a run is in flight.
triggerRenderedWhileLoading == audioBlob # NoBlob

\* audioBlob && !isLoading: the pipeline button is rendered.
triggerRendered == audioBlob # NoBlob /\ ~isLoading

\* The pipeline button: the handler runs up to its first await.
TriggerClick ==
  /\ controlsVisible
  /\ triggerRendered
  /\ TotalCounsels(students) + Len(runs) < MaxCounsels
  /\ selectedStudentId # NoId
  /\ isLoading' = TRUE
  /\ runs' = Append(runs, [sid |-> selectedStudentId, audio |-> audioBlob,
                           pc |-> "encode"])
  /\ lastOp' = Op("run:start", NoArg)
  /\ UNCHANGED <<storeVars, logVars, recorderVars, shellVars, registerVars, eduVars>>

\* blobToBase64 resolves: the handler calls generateContent.
RunEncoded(i) ==
  /\ runs[i].pc = "encode"
  /\ runs' = [runs EXCEPT ![i].pc = "request"]
  /\ lastOp' = Op("run:encoded", NoArg)
  /\ UNCHANGED <<storeVars, logVars, recorderVars, shellVars, registerVars, eduVars,
                 isLoading>>

\* The catch and finally blocks.
runFails(i, why) ==
  /\ runs' = Remove(runs, i)
  /\ isLoading' = FALSE
  /\ lastOp' = Op("run:failed", why)
  /\ UNCHANGED <<storeVars, logVars, recorderVars, shellVars, registerVars, eduVars>>

\* The await the run is suspended at rejects (the file read, the request).
RunAwaitRejects(i) ==
  /\ i \in 1..Len(runs)
  /\ runFails(i, [kind |-> "rejected"])

\* generateContent resolves with resp: the rest of the try block, and finally.
RunResponse(i, resp) ==
  /\ runs[i].pc = "request"
  /\ IF parseThrows(resp)
       THEN runFails(i, resp)
       ELSE LET roster2 == prependCounsel(students, runs[i].sid, newCounsel(runs[i], resp))
            IN /\ students' = roster2
               /\ audioBlob' = NoBlob
               /\ isLoading' = FALSE
               /\ runs' = Remove(runs, i)
               /\ lastOp' = Op("run:ok", resp)
               /\ useEffectSelectedCounsel(roster2, eduStudentId, selectedCounselId,
                                           FALSE, image, notes, isModified, supplied)
               /\ UNCHANGED <<now, logVars, shellVars, registerVars, eduStudentId,
                              selectedCounselId, readers, isRecording, mediaRecorder,
                              audioChunks, captures, gettingMedia>>

(***************************************************************************)
(* The shell of App: the tabs and the resize listener.                     *)
(***************************************************************************)
Tabs == {"register", "log", "education"}

\* A tab button.  RegisterView and EducationView are mounted only under
\* their tab: their state starts afresh, and a FileReader of an unmounted
\* EducationView sets nothing.
SetActiveTab(tab) ==
  /\ tab # activeTab
  /\ activeTab' = tab
  /\ editingStudentId' = NoId
  /\ eduStudentId' = NoId
  /\ selectedCounselId' = NoId
  /\ image' = None
  /\ notes' = ""
  /\ isModified' = FALSE
  /\ readers' = <<>>
  /\ supplied' = {}
  /\ lastOp' = Op("tab", NoArg)
  /\ UNCHANGED <<storeVars, logVars, recorderVars, pipelineVars, isMobile>>

\* handleResize: window.innerWidth crosses 768.
Resize ==
  /\ isMobile' = ~isMobile
  /\ lastOp' = Op("resize", NoArg)
  /\ UNCHANGED <<storeVars, logVars, recorderVars, pipelineVars, registerVars,
                 eduVars, activeTab>>

\* Time passes between two steps, or does not: Date.now() has the resolution
\* of a millisecond.
Tick ==
  /\ now < MaxClock
  /\ now' = now + 1
  /\ UNCHANGED <<students, lastOp, appVars>>

(***************************************************************************)
(* The session log's selection (lines 238-258, 285).                       *)
(***************************************************************************)
LogStudentClick(i) ==
  /\ logListVisible
  /\ selectedStudentId' = students[i].id
  /\ expandedCounselId' = NoId
  /\ lastOp' = Op("log:student", NoArg)
  /\ UNCHANGED <<storeVars, recorderVars, pipelineVars, shellVars, registerVars, eduVars>>

\* The back button of the narrow layout.
LogBack ==
  /\ logDetailsVisible
  /\ isMobile
  /\ selectedStudentId # NoId
  /\ selectedStudentId' = NoId
  /\ lastOp' = Op("log:back", NoArg)
  /\ UNCHANGED <<storeVars, recorderVars, pipelineVars, shellVars, registerVars, eduVars,
                 expandedCounselId>>

\* A click on entry j of the selected student's log.
LogCounselClick(j) ==
  /\ controlsVisible
  /\ LET counsels == students[IndexOfId(students, selectedStudentId)].counsels
     IN /\ j \in 1..Len(counsels)
        /\ expandedCounselId' =
             IF expandedCounselId = counsels[j].id THEN NoId ELSE counsels[j].id
  /\ lastOp' = Op("log:counsel", NoArg)
  /\ UNCHANGED <<storeVars, recorderVars, pipelineVars, shellVars, registerVars, eduVars,
                 selectedStudentId>>

(***************************************************************************)
(* RegisterView.  formData is read by handleSubmit alone and handleChange  *)
(* can bring it to any value, so the form's content is an input of the     *)
(* submit.                                                                 *)
(***************************************************************************)
FormData ==
  [class : {<<>>, <<"1">>}, number : {<<"1">>, <<"2">>}, name : {"", "Kim"},
   mbti : {""}, notes : {""}]

handleStudentSelect(i) ==
  /\ activeTab = "register"
  /\ editingStudentId' = students[i].id
  /\ lastOp' = Op("register:select", NoArg)
  /\ UNCHANGED <<storeVars, logVars, recorderVars, pipelineVars, shellVars, eduVars>>

\* The cancel button, rendered while editingStudent resolves.
handleCancelEdit ==
  /\ activeTab = "register"
  /\ HasId(students, editingStudentId)
  /\ editingStudentId' = NoId
  /\ lastOp' = Op("register:cancel", NoArg)
  /\ UNCHANGED <<storeVars, logVars, recorderVars, pipelineVars, shellVars, eduVars>>

\* {...editingStudent, ...formData}
mergeFields(student, formData) ==
  [student EXCEPT !.class = formData.class, !.number = formData.number,
                  !.name = formData.name, !.mbti = formData.mbti,
                  !.notes = formData.notes]

\* A check of the required fields that forgets the class.
requiredMissingButClass(formData) ==
  formData.number = <<>> \/ formData.name = ""

\* !formData.class || !formData.number || !formData.name
requiredMissing(formData) ==
  formData.class = <<>> \/ formData.number = <<>> \/ formData.name = ""

handleSubmit(formData) ==
  /\ activeTab = "register"
  /\ IF requiredMissing(formData)
       THEN /\ lastOp' = Op("submit:invalid", formData)
            /\ UNCHANGED <<students, editingStudentId>>
     ELSE IF HasId(students, editingStudentId)
       THEN /\ handleUpdateStudent(
                 mergeFields(students[IndexOfId(students, editingStudentId)], formData))
            /\ editingStudentId' = NoId
            /\ lastOp' = Op("update", formData)
     ELSE /\ Len(students) < MaxStudents
          /\ handleAddStudent(formData)
          /\ editingStudentId' = NoId
          /\ lastOp' = Op("add", formData)
  /\ UNCHANGED <<now, logVars, recorderVars, pipelineVars, shellVars, eduVars>>

(***************************************************************************)
(* EducationView.                                                          *)
(***************************************************************************)
eduListVisible == activeTab = "education" /\ (~isMobile \/ eduStudentId = NoId)

eduCounselListVisible ==
  /\ activeTab = "education"
  /\ HasId(students, eduStudentId)
  /\ selectedCounselId = NoId

eduFormVisible ==
  /\ activeTab = "education"
  /\ selectedCounselId # NoId
  /\ CounselRef(students, eduStudentId, selectedCounselId) # <<0, 0>>

ImageResults == {"img1", None}
NoteTexts == {"", "n1"}

handleStudentClick(studentId) ==
  /\ eduStudentId' = studentId
  /\ selectedCounselId' = NoId
  /\ useEffectSelectedCounsel(students, studentId, NoId, FALSE,
                              image, notes, isModified, supplied)
  /\ UNCHANGED <<storeVars, logVars, recorderVars, pipelineVars, shellVars,
                 registerVars, readers>>

EduStudentClick(i) ==
  /\ eduListVisible
  /\ handleStudentClick(students[i].id)
  /\ lastOp' = Op("edu:student", NoArg)

EduBackToStudents ==
  /\ eduCounselListVisible
  /\ isMobile
  /\ handleStudentClick(NoId)
  /\ lastOp' = Op("edu:back", NoArg)

handleCounselClick(counselId) ==
  /\ selectedCounselId' = counselId
  /\ useEffectSelectedCounsel(students, eduStudentId, counselId, FALSE,
                              image, notes, isModified, supplied)
  /\ UNCHANGED <<storeVars, logVars, recorderVars, pipelineVars, shellVars,
                 registerVars, readers, eduStudentId>>

EduCounselClick(j) ==
  /\ eduCounselListVisible
  /\ LET counsels == students[IndexOfId(students, eduStudentId)].counsels
     IN /\ j \in 1..Len(counsels)
        /\ handleCounselClick(counsels[j].id)
  /\ lastOp' = Op("edu:counsel", NoArg)

\* The form's back button of the narrow layout: setSelectedCounselId(null).
EduBackToCounsels ==
  /\ eduFormVisible
  /\ isMobile
  /\ handleCounselClick(NoId)
  /\ lastOp' = Op("edu:formBack", NoArg)

\* handleImageChange with a file: a FileReader starts reading it.
handleImageChange ==
  /\ eduFormVisible
  /\ Len(readers) < MaxReaders
  /\ readers' = Append(readers, [sid |-> eduStudentId, cid |-> selectedCounselId])
  /\ lastOp' = Op("edu:file", NoArg)
  /\ UNCHANGED <<storeVars, logVars, recorderVars, pipelineVars, shellVars,
                 registerVars, eduStudentId, selectedCounselId, formVars>>

\* reader.onloadend: reader.result is the data URL, or null after an error.
ReaderLoadEnd(i, result) ==
  /\ i \in 1..Len(readers)
  /\ readers' = Remove(readers, i)
  /\ image' = result
  /\ isModified' = TRUE
  /\ supplied' = supplied \cup {"image"}
  /\ lastOp' = Op("edu:loadend", NoArg)
  /\ UNCHANGED <<storeVars, logVars, recorderVars, pipelineVars, shellVars,
                 registerVars, eduStudentId, selectedCounselId, notes>>

handleNotesChange(value) ==
  /\ eduFormVisible
  /\ notes' = value
  /\ isModified' = TRUE
  /\ supplied' = supplied \cup {"notes"}
  /\ lastOp' = Op("edu:notes", NoArg)
  /\ UNCHANGED <<storeVars, logVars, recorderVars, pipelineVars, shellVars,
                 registerVars, eduStudentId, selectedCounselId, image, readers>>

\* image || undefined
orUndefined(img) == IF img \in {None, ""} THEN None ELSE img

\* The roster handleSaveEducationData sets.
patchedRoster(prev, studentId, counselId, img, text) ==
  Map(prev, LAMBDA student :
    IF student.id # studentId THEN student
    ELSE [student EXCEPT !.counsels =
            Map(@, LAMBDA counsel :
              IF counsel.id # counselId THEN counsel
              ELSE [counsel EXCEPT !.reflectionImage = orUndefined(img),
                                   !.educationalNotes = text])])

\* handleSave, behind the save button (disabled unless isModified).
handleSave ==
  /\ eduFormVisible
  /\ isModified
  /\ IF eduStudentId = NoId \/ selectedCounselId = NoId \/ ~isModified
       THEN UNCHANGED <<students, formVars>>
       ELSE LET roster2 == patchedRoster(students, eduStudentId, selectedCounselId,
                                         image, notes)
            IN /\ students' = roster2
               /\ useEffectSelectedCounsel(roster2, eduStudentId, selectedCounselId,
                                           TRUE, image, notes, FALSE, supplied)
  /\ lastOp' = Op("save", NoArg)
  /\ UNCHANGED <<now, logVars, recorderVars, pipelineVars, shellVars,
                 registerVars, eduStudentId, selectedCounselId, readers>>

(***************************************************************************)
(* The roster store's handlers called on their own.                        *)
(***************************************************************************)
Classes == {<<"1">>, <<"1", "-">>, <<"2">>}
Numbers == {<<"1">>, <<"2">>}
Names == {"Kim", "Lee"}

\* What the registration form holds when its required fields are filled.
ValidFields ==
  [class : Classes, number : Numbers, name : {"Kim"}, mbti : {""}, notes : {""}]

\* Students a caller can hand to handleUpdateStudent.
UpdateInputs ==
  [id : 0..MaxClock, class : Classes, number : Numbers, name : Names,
   mbti : {""}, notes : {""}, counsels : {<<>>}]

StoreRegister ==
  \E fields \in ValidFields :
    /\ Len(students) < MaxStudents
    /\ handleAddStudent(fields)
    /\ lastOp' = Op("add", NoArg)
    /\ UNCHANGED <<now, appVars>>

StoreUpdate ==
  \E st \in UpdateInputs :
    /\ handleUpdateStudent(st)
    /\ lastOp' = Op(IF HasId(students, st.id) THEN "update" ELSE "update:miss", NoArg)
    /\ UNCHANGED <<now, appVars>>

(***************************************************************************)
(* Specifications.                                                         *)
(***************************************************************************)
Init ==
  /\ students = <<>>
  /\ activeTab = "register"
  /\ selectedStudentId = NoId
  /\ expandedCounselId = NoId
  /\ isRecording = FALSE
  /\ audioBlob = NoBlob
  /\ isLoading = FALSE
  /\ isMobile \in BOOLEAN
  /\ mediaRecorder = 0
  /\ audioChunks = <<>>
  /\ now = 0
  /\ captures = <<>>
  /\ gettingMedia = 0
  /\ runs = <<>>
  /\ editingStudentId = NoId
  /\ eduStudentId = NoId
  /\ selectedCounselId = NoId
  /\ image = None
  /\ notes = ""
  /\ isModified = FALSE
  /\ readers = <<>>
  /\ supplied = {}
  /\ lastOp = Op("init", NoArg)

RegisterActions ==
  \/ \E i \in 1..Len(students) : handleStudentSelect(i)
  \/ handleCancelEdit
  \/ \E formData \in FormData : handleSubmit(formData)

LogActions ==
  \/ \E i \in 1..Len(students) : LogStudentClick(i)
  \/ LogBack
  \/ \E j \in 1..MaxCounsels : LogCounselClick(j)

RecorderActions ==
  \/ StartRecordingClick
  \/ GetUserMediaRejects
  \/ RecorderConstructorThrows
  \/ RecorderStartThrows
  \/ RecordingStarts
  \/ StopRecordingClick
  \/ \E k \in 1..Len(captures) : RecorderStopped(k)

PipelineActions ==
  \/ TriggerClick
  \/ \E i \in 1..Len(runs) : RunEncoded(i)
  \/ \E i \in 1..Len(runs) : RunAwaitRejects(i)
  \/ \E i \in 1..Len(runs) : \E resp \in Responses : RunResponse(i, resp)

EducationActions ==
  \/ \E i \in 1..Len(students) : EduStudentClick(i)
  \/ EduBackToStudents
  \/ \E j \in 1..MaxCounsels : EduCounselClick(j)
  \/ EduBackToCounsels
  \/ handleImageChange
  \/ \E i \in 1..Len(readers) : \E result \in ImageResults : ReaderLoadEnd(i, result)
  \/ \E value \in NoteTexts : handleNotesChange(value)
  \/ handleSave

Next ==
  \/ Tick
  \/ \E tab \in Tabs : SetActiveTab(tab)
  \/ Resize
  \/ RegisterActions
  \/ LogActions
  \/ RecorderActions
  \/ PipelineActions
  \/ EducationActions

Spec == Init /\ [][Next]_vars

\* The register form, the session log, the recorder and the pipeline.
NextLog ==
  \/ Tick
  \/ \E tab \in {"register", "log"} : SetActiveTab(tab)
  \/ Resize
  \/ RegisterActions
  \/ LogActions
  \/ RecorderActions
  \/ PipelineActions

SpecLog == Init /\ [][NextLog]_vars

\* The annotation view over sessions that runs of the pipeline created: the
\* register form submitted filled, the session log's student list, a recorder
\* and a pipeline whose awaits resolve with a full response, and EducationView.
\* A response with both fields, and the forms with their required fields filled.
FullResponse == [kind |-> "object", transcription |-> "t1", feedback |-> "f1"]

FilledForms == {f \in FormData : f.class # <<>> /\ f.name # ""}

NextAnnot ==
  \/ Tick
  \/ \E tab \in Tabs : SetActiveTab(tab)
  \/ \E formData \in FilledForms : handleSubmit(formData)
  \/ \E i \in 1..Len(students) : LogStudentClick(i)
  \/ StartRecordingClick
  \/ RecordingStarts
  \/ StopRecordingClick
  \/ \E k \in 1..Len(captures) : RecorderStopped(k)
  \/ TriggerClick
  \/ \E i \in 1..Len(runs) : RunEncoded(i)
  \/ \E i \in 1..Len(runs) : RunResponse(i, FullResponse)
  \/ EducationActions

SpecAnnot == Init /\ [][NextAnnot]_vars

\* Everything that writes the roster through the views: registrations and
\* edits of the register form, runs of the pipeline with a full response, and
\* saves of notes in the annotation view.
NextSessions ==
  \/ Tick
  \/ \E tab \in Tabs : SetActiveTab(tab)
  \/ \E i \in 1..Len(students) : handleStudentSelect(i)
  \/ \E formData \in FilledForms : handleSubmit(formData)
  \/ \E i \in 1..Len(students) : LogStudentClick(i)
  \/ StartRecordingClick
  \/ RecordingStarts
  \/ StopRecordingClick
  \/ \E k \in 1..Len(captures) : RecorderStopped(k)
  \/ TriggerClick
  \/ \E i \in 1..Len(runs) : RunEncoded(i)
  \/ \E i \in 1..Len(runs) : RunResponse(i, FullResponse)
  \/ \E i \in 1..Len(students) : EduStudentClick(i)
  \/ \E j \in 1..MaxCounsels : EduCounselClick(j)
  \/ \E value \in NoteTexts : handleNotesChange(value)
  \/ handleSave

SpecSessions == Init /\ [][NextSessions]_vars

\* SpecLog with the awaits of a run settling: blobToBase64 resolves, and the
\* AI round trip returns.
SpecLogFair ==
  /\ SpecLog
  /\ WF_vars(\E i \in 1..Len(runs) : RunEncoded(i))
  /\ WF_vars(\E i \in 1..Len(runs) : \E resp \in Responses : RunResponse(i, resp))

\* The roster store under direct calls of its two handlers.
NextStore == Tick \/ StoreRegister \/ StoreUpdate

SpecStore == Init /\ [][NextStore]_vars

(***************************************************************************)
(* Claims about the roster store.                                          *)
(***************************************************************************)
\* a is not after b in the order of the pair (class, number).
PairLE(a, b) ==
  \/ localeCompare(a.class, b.class) < 0
  \/ /\ localeCompare(a.class, b.class) = 0
     /\ localeCompare(a.number, b.number) <= 0

\* C1: after every register and update the roster is sorted by the pair
\* (class, number): by class first and, for equal class, by number.
C1_SortedByPair ==
  \A i \in 1..Len(students) : \A j \in 1..Len(students) :
    i < j => PairLE(students[i], students[j])

\* C9: handleUpdateStudent called with a student whose id is not in the
\* roster leaves the roster as it was: same students, same fields, same order.
C9_UpdateMissUnchanged ==
  [][lastOp'.op = "update:miss" => students' = students]_vars

\* C9 witness: an update with an unknown id ran on a roster of two different
\* students that compare equal, where only a stable sort keeps the order.
C9_Witness ==
  /\ lastOp.op = "update:miss"
  /\ Len(students) = 2
  /\ compareStudents(students[1], students[2]) = 0
  /\ students[1] # students[2]

(***************************************************************************)
(* Claims about the pipeline.                                              *)
(***************************************************************************)
\* This step ends run i with the catch block.
RunFailedStep(i) == runs' = Remove(runs, i) /\ lastOp'.op = "run:failed"

\* This step ends run i past setStudents and setAudioBlob(null).
RunSucceededStep(i) == runs' = Remove(runs, i) /\ lastOp'.op = "run:ok"

\* Not an object with transcription and feedback both non-empty strings.
Malformed(resp) ==
  \/ resp.kind # "object"
  \/ resp.transcription \in {None, ""}
  \/ resp.feedback \in {None, ""}

\* C2: a run whose response is malformed (unparseable, or transcription or
\* feedback missing or empty) creates no session and reports the failure.
C2_MalformedCreatesNoSession ==
  [][\A i \in 1..Len(runs) :
       ((RunFailedStep(i) \/ RunSucceededStep(i)) /\ Malformed(lastOp'.arg))
         => (students' = students /\ lastOp'.op = "run:failed")]_vars

\* C3: when a run fails, the audio it was started with is still the pending
\* audio at the moment the failure is reported.
C3_FailedRunKeepsAudio ==
  [][\A i \in 1..Len(runs) : RunFailedStep(i) => audioBlob' = runs[i].audio]_vars

\* C4: after a successful run for a student the new session is first in that
\* student's list, the sessions that were there follow in their order, and
\* the lists of all other students are as they were.
C4_PrependOnlyToTarget ==
  [][\A i \in 1..Len(runs) :
       RunSucceededStep(i) =>
         LET p == IndexOfId(students, runs[i].sid)
         IN /\ p # 0
            /\ Len(students') = Len(students)
            /\ students'[p].counsels # <<>>
            /\ Tail(students'[p].counsels) = students[p].counsels
            /\ \A q \in 1..Len(students) :
                 q # p => students'[q].counsels = students[q].counsels]_vars

SaveStep == lastOp'.op = "save" /\ isModified /\ ~isModified'

\* The session the form is about.
Target == CounselRef(students, eduStudentId, selectedCounselId)

SameShape ==
  /\ Len(students') = Len(students)
  /\ \A q \in 1..Len(students) :
       Len(students'[q].counsels) = Len(students[q].counsels)

\* C6: a save never changes the id, date, transcription, feedback or audio of
\* the targeted session, never changes another session or another student,
\* and changes nothing when the ids do not resolve.
C6_SaveFrame ==
  [][SaveStep =>
       /\ SameShape
       /\ Target = <<0, 0>> => students' = students
       /\ \A q \in 1..Len(students) :
            /\ [students'[q] EXCEPT !.counsels = <<>>] = [students[q] EXCEPT !.counsels = <<>>]
            /\ \A d \in 1..Len(students[q].counsels) :
                 LET before == CounselAt(students, <<q, d>>)
                     after == CounselAt(students', <<q, d>>)
                 IN IF <<q, d>> = Target
                      THEN /\ after.id = before.id
                           /\ after.date = before.date
                           /\ after.transcription = before.transcription
                           /\ after.feedback = before.feedback
                           /\ after.audio = before.audio
                      ELSE after = before]_vars

HasContent(text) == text \notin {None, ""}

\* C8: once a session has a reflectionImage or educationalNotes stored, no
\* save makes that field absent or empty again.
C8_NoClearing ==
  [][(SaveStep /\ SameShape) =>
       \A q \in 1..Len(students) : \A j \in 1..Len(students[q].counsels) :
         /\ HasContent(students[q].counsels[j].reflectionImage)
              => HasContent(students'[q].counsels[j].reflectionImage)
         /\ HasContent(students[q].counsels[j].educationalNotes)
              => HasContent(students'[q].counsels[j].educationalNotes)]_vars

(***************************************************************************)
(* Claims about the view selection state.                                  *)
(***************************************************************************)
\* The session id is that of a session of the student the id resolves to.
FocusResolves(studentId, counselId) ==
  counselId # NoId => CounselRef(students, studentId, counselId) # <<0, 0>>

\* C10: in the session log and in the annotation view, whenever the selected
\* student changes, also to none, the session focus is cleared; so a session
\* focus always identifies a session of the selected student.
C10_FocusFollowsStudent ==
  /\ [][/\ selectedStudentId' # selectedStudentId => expandedCounselId' = NoId
        /\ eduStudentId' # eduStudentId => selectedCounselId' = NoId]_vars
  /\ [](/\ FocusResolves(selectedStudentId, expandedCounselId)
        /\ FocusResolves(eduStudentId, selectedCounselId))

(***************************************************************************)
(* Claims about the recorder's captures.                                   *)
(***************************************************************************)
\* The captures whose stream still holds the device.
LiveCaptures(caps) == {k \in 1..Len(caps) : caps[k].tracks = "live"}

\* The captures in progress: the stream is acquired and its recorder records.
ActiveCaptures(caps) ==
  {k \in LiveCaptures(caps) : caps[k].state = "recording"}

\* C11: at most one capture is active at any time: a start request made
\* while a capture is active or while an earlier request is still acquiring
\* the device starts no second capture, so there are never two acquired
\* streams with two recorders recording at once.
C11_SingleCapture == Cardinality(ActiveCaptures(captures)) <= 1

\* C12: a start that fails (getUserMedia rejects, the recorder's constructor
\* or its start throws) leaves the recorder's state as it was, with no
\* recorder or chunk buffer of the failed attempt left behind and no stream
\* of it left open.
C12_FailedStartLeavesNothing ==
  [][lastOp'.op = "startRecording:failed" =>
       /\ isRecording' = isRecording
       /\ audioBlob' = audioBlob
       /\ mediaRecorder' = mediaRecorder
       /\ audioChunks' = audioChunks
       /\ LiveCaptures(captures') = LiveCaptures(captures)]_vars

(***************************************************************************)
(* Claims about identifiers.                                               *)
(***************************************************************************)
\* The ids of every session of the roster, student by student.
RECURSIVE SessionIds(_)
SessionIds(roster) ==
  IF roster = <<>> THEN <<>>
  ELSE Map(Head(roster).counsels, LAMBDA c : c.id) \o SessionIds(Tail(roster))

NoRepeat(seq) == \A i \in 1..Len(seq) : \A j \in 1..Len(seq) : i # j => seq[i] # seq[j]

\* C13: no two students share an id and no two sessions share an id, also
\* when two of them are created in the same millisecond.
C13_IdsUnique ==
  /\ NoRepeat(Map(students, LAMBDA s : s.id))
  /\ NoRepeat(SessionIds(students))

(***************************************************************************)
(* Claims about the validation of the register form.                       *)
(***************************************************************************)
\* The step is a submission of RegisterView's form, which lastOp records.
SubmitStep ==
  /\ lastOp'.op \in {"submit:invalid", "add", "update"}
  /\ "class" \in DOMAIN lastOp'.arg

EmptyRequired(fields) ==
  fields.class = <<>> \/ fields.number = <<>> \/ fields.name = ""

C15_OneRunPerStudent ==
  /\ \A i \in 1..Len(runs) : \A j \in 1..Len(runs) :
       i # j => runs[i].sid # runs[j].sid
  /\ runs # <<>> => ~triggerRendered

\* C15 witness: a run is in flight for the student whose log is shown while
\* a recording is ready, which is when the button would otherwise be there.
C15_Witness ==
  /\ Len(runs) = 1
  /\ controlsVisible
  /\ selectedStudentId = runs[1].sid
  /\ audioBlob # NoBlob

(***************************************************************************)
(* Claims about the history of a student's sessions.                       *)
(***************************************************************************)
\* later is earlier with at most one session inserted at its head: the
\* sessions of earlier are all there, in their order, with their id and date.
HeadExtension(earlier, later) ==
  LET added == Len(later) - Len(earlier)
  IN /\ added \in {0, 1}
     /\ \A d \in 1..Len(earlier) :
          /\ later[d + added].id = earlier[d].id
          /\ later[d + added].date = earlier[d].date

\* C16: in every step (a registration, an edit of a student, a run of the
\* pipeline, a save of an annotation) each student is still in the roster
\* and its sessions change only by one new session at the head: none is
\* deleted or reordered, none changes its id or its date.
C16_SessionsOnlyPrepended ==
  [][/\ Len(students') >= Len(students)
     /\ \A p \in 1..Len(students) : \E q \in 1..Len(students') :
          /\ students'[q].id = students[p].id
          /\ HeadExtension(students[p].counsels, students'[q].counsels)]_vars

(***************************************************************************)
(* Claims about the finalized audio.                                       *)
(***************************************************************************)
\* C17: while a capture is in progress (isRecording) no audio is available
\* to the pipeline button, and the audio that is available holds the chunks
\* of exactly one capture, which was started and then stopped.
C17_PayloadOnlyAfterStop ==
  /\ isRecording => audioBlob = NoBlob
  /\ audioBlob # NoBlob =>
       \E k \in 1..Len(captures) :
         /\ audioBlob.chunks = <<k>>
         /\ captures[k].state = "inactive"

(***************************************************************************)
(* Claims about the panes of the views.                                    *)
(***************************************************************************)
EduStudentResolves == HasId(students, eduStudentId)

EduSessionResolves ==
  /\ selectedCounselId # NoId
  /\ CounselRef(students, eduStudentId, selectedCounselId) # <<0, 0>>

\* C18: on a wide viewport the annotation view shows every pane that
\* resolves: when the selected student and the selected session resolve, the
\* roster list, the student's session list and the form are all visible.
C18_WideShowsAllPanes ==
  (activeTab = "education" /\ ~isMobile /\ EduStudentResolves /\ EduSessionResolves)
    => (eduListVisible /\ eduCounselListVisible /\ eduFormVisible)

\* The number of the given panes that are visible.
Shown(panes) == Cardinality({i \in 1..Len(panes) : panes[i]})

\* A back step cleared one level of focus: the session id if one was set,
\* otherwise the student id.
ClearsOneLevel(studentId, sessionId, studentId2, sessionId2) ==
  IF sessionId # NoId
    THEN sessionId2 = NoId /\ studentId2 = studentId
    ELSE sessionId2 = NoId /\ studentId2 = NoId

\* The step is a press of one of the back buttons named by ops (the clock
\* does not move within a handler, and lastOp keeps its value when it does).
BackStep(ops) == lastOp'.op \in ops /\ now' = now

\* C19: on a narrow viewport each view shows exactly one pane, the deepest
\* one that resolves (the form if student and session resolve, else the
\* student's sessions if the student resolves, else the roster list), and
\* each back button clears exactly one level of focus, the session id if
\* one is set and otherwise the student id.
C19_NarrowSinglePane ==
  /\ []((isMobile /\ activeTab = "education") =>
          /\ Shown(<<eduListVisible, eduCounselListVisible, eduFormVisible>>) = 1
          /\ eduFormVisible = (EduStudentResolves /\ EduSessionResolves)
          /\ eduCounselListVisible = (EduStudentResolves /\ ~EduSessionResolves)
          /\ eduListVisible = ~EduStudentResolves)
  /\ []((isMobile /\ activeTab = "log") =>
          /\ Shown(<<logListVisible, logDetailsVisible>>) = 1
          /\ logDetailsVisible = HasId(students, selectedStudentId))
  /\ [][/\ BackStep({"log:back"}) =>
             ClearsOneLevel(selectedStudentId, expandedCounselId,
                            selectedStudentId', expandedCounselId')
        /\ BackStep({"edu:back", "edu:formBack"}) =>
             ClearsOneLevel(eduStudentId, selectedCounselId,
                            eduStudentId', selectedCounselId')]_vars

(***************************************************************************)
(* Claims about the completion of a run.                                   *)
(***************************************************************************)
\* C20: the step that completes a run, with success or with failure, leaves
\* no run in flight and isLoading false, and it is all or nothing: a
\* success created exactly one session, a failure left the roster as it was.
C20_RunCompletesAllOrNothing ==
  [][\A i \in 1..Len(runs) :
       /\ (RunFailedStep(i) \/ RunSucceededStep(i)) =>
            runs' = <<>> /\ ~isLoading'
       /\ RunSucceededStep(i) => TotalCounsels(students') = TotalCounsels(students) + 1
       /\ RunFailedStep(i) => students' = students]_vars

\* C20, the progress half: once the awaits of a run settle, every run that
\* was started completes, and then none is in flight and isLoading is false.
C20_RunsEventuallyComplete == (runs # <<>>) ~> (runs = <<>> /\ ~isLoading)

(***************************************************************************)
(* Claims about a run that outlives the selection it was started under.    *)
(***************************************************************************)
\* When run i completes, the session log no longer shows the student the run
\* was triggered for: another student or none is selected, or another view
\* is shown.
SelectionMoved(i) == selectedStudentId # runs[i].sid \/ activeTab # "log"

\* C21: a run that succeeds after the selection moved away still prepends
\* its session to the student that was selected when it was triggered, and
\* to that student alone: every other student of the roster is as it was.
C21_SessionGoesToTriggerStudent ==
  [][\A i \in 1..Len(runs) :
       (RunSucceededStep(i) /\ SelectionMoved(i)) =>
         \E p \in 1..Len(students) :
           /\ students[p].id = runs[i].sid
           /\ Len(students') = Len(students)
           /\ students'[p].counsels # <<>>
           /\ Tail(students'[p].counsels) = students[p].counsels
           /\ \A q \in 1..Len(students) : q # p => students'[q] = students[q]]_vars

(***************************************************************************)
(* Claims about a file read that outlives the focus it was started under.  *)
(***************************************************************************)
\* This step is the loadend of reader i.
ReaderLoadEndStep(i) == readers' = Remove(readers, i) /\ lastOp'.op = "edu:loadend"

\* The form now shows a session other than the one reader i was started for.
FocusMoved(i) ==
  /\ selectedCounselId # NoId
  /\ <<eduStudentId, selectedCounselId>> # <<readers[i].sid, readers[i].cid>>

\* C22: when the read of a chosen file completes after the focus moved to
\* another session, the result neither appears in that session's form nor
\* marks the form as modified, so that it can never be saved to that session.
C22_LateImageDropped ==
  [][\A i \in 1..Len(readers) :
       (ReaderLoadEndStep(i) /\ FocusMoved(i)) =>
         image' = image /\ isModified' = isModified]_vars

====
